---- MODULE Spec2Model ----
(***************************************************************************)
(* A model of the earthstar key/value store (StoreSqlite: items, getItem,  *)
(* ingestItem, set, _syncFrom, sync) and of the HTTP sync pass             *)
(* (syncLocalAndHttp).                                                     *)
(*                                                                         *)
(* Strings that the code compares (keys, signatures, the strings that      *)
(* JavaScript builds when it compares two arrays) are sequences of         *)
(* character codes, so that comparing them is the comparison the code      *)
(* makes.  Timestamps and the clock are small naturals on a scale where    *)
(* one unit is ten minutes, and the values are chosen around 10 so that    *)
(* timestamps of a different number of digits occur.                       *)
(***************************************************************************)
EXTENDS Integers, Sequences, FiniteSets, TLC

VARIABLES
    workspace,  \* workspace[s]: StoreSqlite.workspace of store s
    store,      \* store[s]: the rows of table `items` in the database of store s
    now,        \* the clock, Date.now()*1000
    last,       \* the last call made on a store: its arguments and what it returned
    pass,       \* the running syncLocalAndHttp pass: position, resultStats, request in flight
    syncer,     \* the Syncer of store A: its state, what it sent to onChange, its run of sync()
    conn,       \* conn[c]: the ingestItem call of connection c to the database of store A
    pass2       \* the syncLocalAndHttp call of a second sync() made while one is running

vars == <<workspace, store, now, last, pass, syncer, conn, pass2>>

\* ------------------------------------------------------------------ bounds

\* Timestamps offered to the stores are 9..MaxTs.
MaxTs == 11
\* The clock runs from 9 to MaxNow.
MaxNow == 10
\* The most documents an HTTP response body holds.
MaxDocs == 2

\* "Defaults to now + 10 minutes", on the model's scale of time.
TenMinutes == 1

\* ------------------------------------------------------------------ data

StoreIds == {"A", "B", "C"}
Authors == {"a1", "a2"}
Values == {"v1", "v2"}
\* Keys are strings: "k" and "K/1".
KeyK == <<107>>
KeyK1 == <<75, 47, 49>>
Timestamps == 9..MaxTs

AuthorIdx(a) == IF a = "a1" THEN 0 ELSE 1
ValueIdx(v) == IF v = "v1" THEN 0 ELSE 1
WorkspaceIdx(w) == IF w = "w1" THEN 0 ELSE 1

\* A document (a row of the table): the columns of _ensureTables.
MakeItem(w, k, v, t, a, sig) ==
    [schema |-> "kw.1", workspace |-> w, key |-> k, value |-> v,
     timestamp |-> t, author |-> a, signature |-> sig]

\* ------------------------------------------------------------------ strings

RECURSIVE StrLess(_, _)
\* a < b for two strings, as JavaScript and SQLite (BINARY collation) order
\* them: by the first differing code unit, a proper prefix first.
StrLess(a, b) ==
    IF b = <<>> THEN FALSE
    ELSE IF a = <<>> THEN TRUE
    ELSE IF Head(a) # Head(b) THEN Head(a) < Head(b)
    ELSE StrLess(Tail(a), Tail(b))

StrLeq(a, b) == a = b \/ StrLess(a, b)

RECURSIVE NumberToString(_)
\* Number.prototype.toString for a natural number: its decimal digits.
NumberToString(n) ==
    IF n < 10 THEN <<48 + n>>
    ELSE NumberToString(n \div 10) \o <<48 + (n % 10)>>

\* Array.prototype.toString of [timestamp, signature]: the elements joined by ",".
ArrayToString(t, sig) == NumberToString(t) \o <<44>> \o sig

\* ------------------------------------------------------------------ signatures

\* The signatures that occur, as strings.
SigTable ==
    << <<97>>, <<97, 98>>, <<98>>, <<98, 97>>, <<99>>, <<99, 97>>, <<100>>, <<100, 98>> >>

\* signItem: the detached signature of an item's content by its author's key.
\* Deterministic; two items of one key and timestamp that differ in workspace,
\* author or value have different signatures.
SignatureOf(item) ==
    SigTable[((4 * WorkspaceIdx(item.workspace) + 2 * AuthorIdx(item.author)
               + ValueIdx(item.value) + 3 * item.timestamp) % 8) + 1]

\* signItem(item, authorSecret): signing with the secret of another author gives a
\* signature that does not verify against item.author.
SignItem(item, secretOf) ==
    [item EXCEPT !.signature = SignatureOf([item EXCEPT !.author = secretOf])]

\* futureCutoff is <<>> when the argument is omitted and <<c>> when it is given.
FutureCutoff(cutoff, clock) ==
    IF cutoff = <<>> THEN clock + TenMinutes ELSE cutoff[1]

\* itemIsValid(item, futureCutoff): the signature verifies and the timestamp is
\* not after the cutoff.
ItemIsValid(item, cutoff, clock) ==
    /\ item.signature = SignatureOf(item)
    /\ item.timestamp <= FutureCutoff(cutoff, clock)

\* ------------------------------------------------------------------ queries

Lower(c) == IF c \in 65..90 THEN c + 32 ELSE c

RECURSIVE EscapePrefix(_)
\* prefix.split('_').join('\\_').split('%').join('\\%')
EscapePrefix(p) ==
    IF p = <<>> THEN <<>>
    ELSE IF Head(p) \in {95, 37} THEN <<92, Head(p)>> \o EscapePrefix(Tail(p))
    ELSE <<Head(p)>> \o EscapePrefix(Tail(p))

RECURSIVE Like(_, _)
\* SQLite's `s LIKE pat ESCAPE '\'`: % is any string, _ any character, letters
\* match without regard to case.
Like(pat, s) ==
    IF pat = <<>> THEN s = <<>>
    ELSE IF Head(pat) = 92 /\ Len(pat) >= 2
         THEN s # <<>> /\ Lower(pat[2]) = Lower(Head(s))
              /\ Like(SubSeq(pat, 3, Len(pat)), Tail(s))
    ELSE IF Head(pat) = 37
         THEN Like(Tail(pat), s) \/ (s # <<>> /\ Like(pat, Tail(s)))
    ELSE IF Head(pat) = 95
         THEN s # <<>> /\ Like(Tail(pat), Tail(s))
    ELSE s # <<>> /\ Lower(Head(pat)) = Lower(Head(s)) /\ Like(Tail(pat), Tail(s))

\* QueryOpts: an option that is left out is the empty set; limit 0 is no limit.
Query(key, lowKey, highKey, prefix, limit, includeHistory) ==
    [key |-> key, lowKey |-> lowKey, highKey |-> highKey, prefix |-> prefix,
     limit |-> limit, includeHistory |-> includeHistory]

\* The WHERE clause of items().
MatchesFilters(row, query) ==
    /\ \A k \in query.key : row.key = k
    /\ \A k \in query.lowKey : StrLeq(k, row.key)
    /\ \A k \in query.highKey : StrLess(row.key, k)
    /\ \A p \in query.prefix : Like(EscapePrefix(p) \o <<37>>, row.key)

\* ORDER BY key ASC, timestamp DESC, signature DESC
RowBefore(r, q) ==
    \/ StrLess(r.key, q.key)
    \/ r.key = q.key /\ r.timestamp > q.timestamp
    \/ r.key = q.key /\ r.timestamp = q.timestamp /\ StrLess(q.signature, r.signature)

RECURSIVE OrderRows(_)
OrderRows(rows) ==
    IF rows = {} THEN <<>>
    ELSE LET first == CHOOSE r \in rows : \A q \in rows : ~RowBefore(q, r)
         IN  <<first>> \o OrderRows(rows \ {first})

\* LIMIT :limit
LimitRows(seq, limit) ==
    IF limit > 0 /\ limit < Len(seq) THEN SubSeq(seq, 1, limit) ELSE seq

\* items({..., includeHistory: true}): every row that matches, in order.
ItemsWithHistory(rows, query) ==
    LimitRows(OrderRows({r \in rows : MatchesFilters(r, query)}), query.limit)

\* The rows SQLite may take the bare columns of the group of key k from: with
\* MAX(timestamp), a row of the group that holds the maximum; which one, when
\* several do, is not specified.
GroupRows(rows, k) ==
    LET group == {r \in rows : r.key = k}
    IN  {r \in group : \A q \in group : q.timestamp <= r.timestamp}

\* items({..., includeHistory: false}): the results the query can give, one row
\* per key.
ItemsLatest(rows, query) ==
    LET matching == {r \in rows : MatchesFilters(r, query)}
        keys == {r.key : r \in matching}
    IN  {LimitRows(OrderRows({pick[k] : k \in keys}), query.limit) :
            pick \in {f \in [keys -> matching] : \A k \in keys : f[k] \in GroupRows(matching, k)}}

\* items(query): the set of results the call can return.
Items(rows, query) ==
    IF query.includeHistory THEN {ItemsWithHistory(rows, query)}
    ELSE ItemsLatest(rows, query)

\* getItem(key): the winning row of a key, as a set of at most one row.
GetItem(rows, key) ==
    LET ofKey == {r \in rows : r.key = key}
    IN  IF ofKey = {} THEN {}
        ELSE {CHOOSE r \in ofKey : \A q \in ofKey :
                  \/ q.timestamp < r.timestamp
                  \/ q.timestamp = r.timestamp /\ StrLeq(q.signature, r.signature)}

\* ------------------------------------------------------------------ writes

\* The lookup of ingestItem: the row of the item's key and author, if any.
ExistingSameAuthorSameKey(rows, item) ==
    LET same == {r \in rows : r.key = item.key /\ r.author = item.author}
    IN  IF same = {} THEN {}
        ELSE {CHOOSE r \in same : \A q \in same : q.timestamp <= r.timestamp}

\* A comparison that turns nothing down.
ItemNeverOlder(item, existing) == FALSE

\* A comparison of the timestamps alone.
TimestampOlder(item, existing) == item.timestamp < existing.timestamp

\* A comparison with < where the code has <=.
ItemOlder(item, existing) ==
    StrLess(ArrayToString(item.timestamp, item.signature),
            ArrayToString(existing.timestamp, existing.signature))

\* [item.timestamp, item.signature] <= [existing.timestamp, existing.signature]:
\* JavaScript compares two arrays by their strings.
ItemNotNewer(item, existing) ==
    StrLeq(ArrayToString(item.timestamp, item.signature),
           ArrayToString(existing.timestamp, existing.signature))

\* An INSERT that replaces nothing.
InsertOnly(rows, item) == rows \cup {item}

\* INSERT OR REPLACE under PRIMARY KEY(key, author).
InsertOrReplace(rows, item) ==
    {r \in rows : ~(r.key = item.key /\ r.author = item.author)} \cup {item}

\* ingestItem(item, futureCutoff) on a table `rows`: the table afterwards, the
\* value returned, what itemIsValid said, and whether the lookup found a row.
IngestItemResult(rows, item, cutoff, clock) ==
    LET existing == ExistingSameAuthorSameKey(rows, item)
    IN  IF ~ItemIsValid(item, cutoff, clock)
        THEN [rows |-> rows, ret |-> FALSE, valid |-> FALSE, hadExisting |-> FALSE]
        ELSE IF \E e \in existing : ItemNotNewer(item, e)
        THEN [rows |-> rows, ret |-> FALSE, valid |-> TRUE, hadExisting |-> TRUE]
        ELSE [rows |-> InsertOrReplace(rows, item), ret |-> TRUE, valid |-> TRUE,
              hadExisting |-> existing # {}]

Max(a, b) == IF a >= b THEN a ELSE b

\* ItemToSet: timestamp 0 is a timestamp left out; authorSecret names the author
\* whose secret signs.
ItemToSet(key, value, author, timestamp, authorSecret) ==
    [key |-> key, value |-> value, author |-> author, timestamp |-> timestamp,
     authorSecret |-> authorSecret]

\* The item that set() builds and signs; set() then returns
\* ingestItem(signedItem, item.timestamp).
SetItem(rows, w, itemToSet, clock) ==
    LET requested == IF itemToSet.timestamp > 0 THEN itemToSet.timestamp ELSE clock
        current == GetItem(rows, itemToSet.key)
        existingItemTimestamp == IF current = {} THEN 0
                                 ELSE (CHOOSE r \in current : TRUE).timestamp
        item == MakeItem(w, itemToSet.key, itemToSet.value,
                         Max(requested, existingItemTimestamp + 1),
                         itemToSet.author, <<>>)
    IN  SignItem(item, itemToSet.authorSecret)

\* The one element of a set with one element: Only({e(x) : x \in {v}}) is
\* e(v) with v worked out once.
Only(S) == CHOOSE x \in S : TRUE

NoQuery(includeHistory) == Query({}, {}, {}, {}, 0, includeHistory)

RECURSIVE IngestAll(_, _, _)
\* The loop of _syncFrom: ingestItem(item) for each item in turn.
IngestAll(rows, items, clock) ==
    IF items = <<>> THEN [rows |-> rows, n |-> 0]
    ELSE Only({Only({[rows |-> rest.rows, n |-> rest.n + (IF one.ret THEN 1 ELSE 0)] :
                        rest \in {IngestAll(one.rows, Tail(items), clock)}}) :
                  one \in {IngestItemResult(rows, Head(items), <<>>, clock)}})

\* A _syncFrom that ingests the existing items before it looks at `live`.
SyncFromThrowsLate(rows, otherRows, existing, live, clock) ==
    IF existing
    THEN Only({[rows |-> done.rows, n |-> done.n, threw |-> live] :
                  done \in {IngestAll(rows, ItemsWithHistory(otherRows, NoQuery(TRUE)),
                                      clock)}})
    ELSE [rows |-> rows, n |-> 0, threw |-> live]

\* _syncFrom(otherStore, existing, live) on a table `rows`.
SyncFrom(rows, otherRows, existing, live, clock) ==
    IF live THEN [rows |-> rows, n |-> 0, threw |-> TRUE]
    ELSE IF existing
    THEN Only({[rows |-> done.rows, n |-> done.n, threw |-> FALSE] :
                  done \in {IngestAll(rows, ItemsWithHistory(otherRows, NoQuery(TRUE)),
                                      clock)}})
    ELSE [rows |-> rows, n |-> 0, threw |-> FALSE]

\* SyncOpts, with the defaults of sync() filled in.
SyncOpts(direction, existing, live) ==
    [direction |-> direction, existing |-> existing, live |-> live]

\* A push step that is called whether or not the pull step returned.
PushIsCalledAlways(doPush, pull) == doPush

\* The push step of sync() is reached when the direction asks for it and the
\* pull step before it returned.
PushIsCalled(doPush, pull) == doPush /\ ~pull.threw

\* A guard that stops a store from syncing with itself only.
SyncIsRefusedForSelf(ws, s, o) == o = s

\* The guards of sync(): "don't sync with yourself", "don't sync across
\* workspaces".
SyncIsRefused(ws, s, o) == o = s \/ ws[s] # ws[o]

\* sync(otherStore, opts) from store s to store o: both tables afterwards, the
\* counts, the steps that were called and those that threw.
SyncResult(stores, ws, s, o, opts, clock) ==
    LET none == [this |-> stores[s], other |-> stores[o], numPushed |-> 0,
                 numPulled |-> 0, threw |-> {}, called |-> {}]
    IN  IF SyncIsRefused(ws, s, o) THEN none
        ELSE
        LET doPull == opts.direction \in {"pull", "both"}
            doPush == opts.direction \in {"push", "both"}
        IN  Only({Only({
                [this |-> pull.rows, other |-> push.rows,
                 numPushed |-> push.n, numPulled |-> pull.n,
                 threw |-> (IF pull.threw THEN {"pull"} ELSE {})
                           \cup (IF push.threw THEN {"push"} ELSE {}),
                 called |-> (IF doPull THEN {"pull"} ELSE {})
                            \cup (IF PushIsCalled(doPush, pull) THEN {"push"} ELSE {})] :
                push \in {IF PushIsCalled(doPush, pull)
                          THEN SyncFrom(stores[o], pull.rows, opts.existing, opts.live,
                                        clock)
                          ELSE [rows |-> stores[o], n |-> 0, threw |-> FALSE]}}) :
                pull \in {IF doPull
                          THEN SyncFrom(stores[s], stores[o], opts.existing, opts.live,
                                        clock)
                          ELSE [rows |-> stores[s], n |-> 0, threw |-> FALSE]}})

\* ------------------------------------------------------------------ state

\* An item of workspace w signed by its own author.
SignedItem(w, k, v, t, a) == SignItem(MakeItem(w, k, v, t, a, <<>>), a)

NoOpts == SyncOpts("both", TRUE, FALSE)

\* A call on a store: its arguments, what it returned, and (for sync) the steps
\* it called.
Call(op, s, o, item, cutoff, ret, valid, hadExisting, opts, numPushed, numPulled, threw, called) ==
    [op |-> op, store |-> s, other |-> o, item |-> item, cutoff |-> cutoff,
     ret |-> ret, valid |-> valid, hadExisting |-> hadExisting, opts |-> opts,
     numPushed |-> numPushed, numPulled |-> numPulled, threw |-> threw,
     called |-> called]

NoCall == Call("none", "A", "A", {}, <<>>, FALSE, FALSE, FALSE, NoOpts, 0, 0, {}, {})

\* The counts of a pull or push: numIngested, numIgnored, numTotal.
Stats(numIngested, numIgnored, numTotal) ==
    [numIngested |-> numIngested, numIgnored |-> numIgnored, numTotal |-> numTotal]

\* One call of syncLocalAndHttp(storage, domain): where it stands (pc), the
\* resultStats object (pull, push and pushStats, {} for null or for a property
\* that is not set), the body of the POST request once it is sent, and the
\* fetch that threw, if one did; resp is the status of the answer to the GET,
\* once it is in.
Pass(pc, pull, push, pushStats, body, failed) ==
    [pc |-> pc, pull |-> pull, push |-> push, pushStats |-> pushStats,
     body |-> body, failed |-> failed, resp |-> {}]

\* No call of syncLocalAndHttp has been made.
IdlePass == Pass("idle", {}, {}, {}, <<>>, "none")

\* The most Pub objects a Syncer holds at a time, in this.state.pubs and in
\* the array that a run still iterates.
MaxPubs == 2

\* A Pub: domain, syncState, lastSync.
Pub(domain, syncState, lastSync) ==
    [domain |-> domain, syncState |-> syncState, lastSync |-> lastSync]

\* A slot that holds no Pub object yet.
NoPub == Pub(<<>>, "idle", 0)

\* The run of sync(): where it stands (none, pass: awaiting syncLocalAndHttp,
\* sleep: awaiting sleep(150), finished, rejected), the array the for loop
\* iterates (Pub objects by number) and whether this.state.pubs is still that
\* array, the index of the Pub being visited, the two counters, and the
\* syncState in which each Pub visited so far was left.
Run(pc, list, attached, at, numSuccessfulPubs, numFailedPubs, visited) ==
    [pc |-> pc, list |-> list, attached |-> attached, at |-> at,
     numSuccessfulPubs |-> numSuccessfulPubs, numFailedPubs |-> numFailedPubs,
     visited |-> visited]

\* No run: none was made, or the last one is over (how it ended is pc).
NoRun == Run("none", <<>>, FALSE, 0, 0, 0, <<>>)

\* The last call made on the Syncer, or step of its run.
SyncerOp(name) == [name |-> name]

\* new Syncer(store): state {pubs: [], syncState: 'idle', lastSync: 0}.  pubs
\* lists Pub objects by number, obj holds the objects, sent is what the last
\* call or step of the run sent to onChange.  run is the run of sync(), other
\* the run of a sync() called while that one is awaiting.
NewSyncer ==
    [pubs |-> <<>>, obj |-> [i \in 1..MaxPubs |-> NoPub],
     syncState |-> "idle", lastSync |-> 0,
     sent |-> <<>>, op |-> SyncerOp("new"), run |-> NoRun, other |-> NoRun]

\* The connections to the database file of store A: two processes that have
\* opened it.
Conns == {"c1", "c2"}

\* A call of ingestItem on a connection: where it stands (idle, or looked:
\* between the SELECT and the INSERT OR REPLACE), the item, the row that the
\* SELECT found, and the value the last call returned.
Ingest(pc, item, existing, ret) ==
    [pc |-> pc, item |-> item, existing |-> existing, ret |-> ret]

NoIngest == Ingest("idle", {}, {}, FALSE)

\* Stores A and B hold workspace w1 and start empty; store C holds workspace w2
\* and was opened on a database file with one row.
Init ==
    /\ workspace = [s \in StoreIds |-> IF s = "C" THEN "w2" ELSE "w1"]
    /\ store = [s \in StoreIds |->
                   IF s = "C" THEN {SignedItem("w2", KeyK, "v1", 9, "a1")} ELSE {}]
    /\ now = 9
    /\ last = NoCall
    /\ pass = IdlePass
    /\ syncer = NewSyncer
    /\ conn = [c \in Conns |-> NoIngest]
    /\ pass2 = IdlePass

\* ------------------------------------------------------------------ actions

\* Time passes.
Tick ==
    /\ now < MaxNow
    /\ now' = now + 1
    /\ UNCHANGED <<workspace, store, last, pass, syncer, conn, pass2>>

\* store s: ingestItem(item, cutoff)
IngestItem(s, item, cutoff) ==
    \E r \in {IngestItemResult(store[s], item, cutoff, now)} :
        /\ store' = [store EXCEPT ![s] = r.rows]
        /\ last' = Call("ingestItem", s, s, {item}, cutoff, r.ret, r.valid, r.hadExisting,
                        NoOpts, 0, 0, {}, {})
        /\ UNCHANGED <<workspace, now, pass, syncer, conn, pass2>>

\* store s: set(itemToSet)
Set(s, itemToSet) ==
    \E item \in {SetItem(store[s], workspace[s], itemToSet, now)} :
    \E r \in {IngestItemResult(store[s], item, <<item.timestamp>>, now)} :
        /\ item.timestamp <= MaxTs
        /\ store' = [store EXCEPT ![s] = r.rows]
        /\ last' = Call("set", s, s, {item}, <<item.timestamp>>, r.ret, r.valid,
                        r.hadExisting, NoOpts, 0, 0, {}, {})
        /\ UNCHANGED <<workspace, now, pass, syncer, conn, pass2>>

\* store s: sync(o, opts)
Sync(s, o, opts) ==
    \E r \in {SyncResult(store, workspace, s, o, opts, now)} :
        /\ store' = [store EXCEPT ![s] = r.this, ![o] = IF o = s THEN r.this ELSE r.other]
        /\ last' = Call("sync", s, o, {}, <<>>, r.threw = {}, FALSE, FALSE, opts,
                        r.numPushed, r.numPulled, r.threw, r.called)
        /\ UNCHANGED <<workspace, now, pass, syncer, conn, pass2>>

\* ------------------------------------------------------------------ one store

\* The items offered to ingestItem: every signed item of workspace w1 and key
\* "k", one of key "K/1", items with a signature that does not verify, and an
\* item of another workspace.
SignedItems == {SignedItem("w1", KeyK, v, t, a) :
                   v \in Values, t \in Timestamps, a \in Authors}
                \cup {SignedItem("w1", KeyK1, "v1", 10, "a1")}
ForgedItems == {MakeItem("w1", KeyK, "v1", 10, a, <<122>>) : a \in Authors}
ForeignItems == {SignedItem("w2", KeyK, "v1", 10, "a2")}
OfferedItems == SignedItems \cup ForgedItems \cup ForeignItems

\* futureCutoff as callers give it: left out, or a timestamp.
Cutoffs == {<<>>, <<MaxTs>>}

\* The requests made of set: a timestamp left out (0), in the past or present.
ItemsToSet == {ItemToSet(KeyK, v, a, t, secret) :
                  v \in Values, a \in Authors,
                  t \in {0} \cup Timestamps, secret \in Authors}

\* Store A alone, under every ingestItem and set call.
NextStore ==
    \/ Tick
    \/ \E item \in OfferedItems, cutoff \in Cutoffs : IngestItem("A", item, cutoff)
    \/ \E itemToSet \in ItemsToSet : Set("A", itemToSet)

SpecStore == Init /\ [][NextStore]_vars

\* ------------------------------------------------------------------ two stores

\* The calls made when stores A and B are both written and synced, with each
\* other, with themselves and with store C of another workspace: a few
\* ingestItem calls (one of them with a cutoff that lets in a document dated
\* after now + 10 minutes, one with a document of another workspace), a set,
\* and a few sync calls.
FewIngests ==
    {<<SignedItem("w1", KeyK, "v1", 9, "a1"), <<>>>>,
     <<SignedItem("w1", KeyK, "v1", 10, "a1"), <<>>>>,
     <<SignedItem("w1", KeyK, "v2", 10, "a2"), <<>>>>,
     <<SignedItem("w1", KeyK, "v2", MaxTs, "a2"), <<MaxTs>>>>,
     <<SignedItem("w2", KeyK, "v1", 10, "a2"), <<>>>>}

FewItemsToSet == {ItemToSet(KeyK, "v1", "a1", 0, "a1")}

FewSyncs ==
    {<<"A", "B">>, <<"B", "A">>, <<"A", "A">>, <<"A", "C">>}
    \X {SyncOpts("both", TRUE, FALSE), SyncOpts("pull", TRUE, FALSE),
        SyncOpts("push", TRUE, FALSE), SyncOpts("both", TRUE, TRUE),
        SyncOpts("pull", FALSE, TRUE), SyncOpts("push", TRUE, TRUE)}

\* The stores that callers write to; store C holds another workspace.
LocalStores == {"A", "B"}

Next ==
    \/ Tick
    \/ \E s \in LocalStores, call \in FewIngests : IngestItem(s, call[1], call[2])
    \/ \E s \in LocalStores, itemToSet \in FewItemsToSet : Set(s, itemToSet)
    \/ \E call \in FewSyncs : Sync(call[1][1], call[1][2], call[2])

Spec == Init /\ [][Next]_vars

\* ------------------------------------------------------------------ three stores

\* Three stores of one workspace, opened on database files that hold any of
\* these rows, one at most for a (key, author); each pulls from the others.
MergeItems ==
    {SignedItem("w1", KeyK, "v1", 9, "a1"), SignedItem("w1", KeyK, "v1", 10, "a1"),
     SignedItem("w1", KeyK, "v2", 10, "a1"), SignedItem("w1", KeyK, "v1", MaxTs, "a2")}

MergeTables ==
    {rows \in SUBSET MergeItems :
        \A r \in rows, q \in rows : (r.key = q.key /\ r.author = q.author) => r = q}

InitMerge ==
    /\ workspace = [s \in StoreIds |-> "w1"]
    /\ store \in [StoreIds -> MergeTables]
    /\ now = 9
    /\ last = NoCall
    /\ pass = IdlePass
    /\ syncer = NewSyncer
    /\ conn = [c \in Conns |-> NoIngest]
    /\ pass2 = IdlePass

NextMerge ==
    \/ Tick
    \/ \E s \in StoreIds : \E o \in StoreIds \ {s} :
          Sync(s, o, SyncOpts("pull", TRUE, FALSE))

SpecMerge == InitMerge /\ [][NextMerge]_vars

\* ------------------------------------------------------------------ store and pub

\* syncLocalAndHttp on store A (its ingestDocument and documents are the
\* store's ingestItem and items), one step for each stretch of code between
\* two awaits.  The pub is the environment: a fetch throws or answers with a
\* status, a body parses to a list of documents or does not.

\* Returning resultStats with both outcomes cleared.
ReturnTotalFailure(resultStats) == [resultStats EXCEPT !.pull = {}, !.push = {}]

\* `return resultStats` in the catch of a fetch.
ReturnOnFetchError(resultStats) == resultStats

\* A status that is never taken for 404.
IsNotFoundNever(status) == FALSE

\* resp.status === 404
IsNotFound(status) == status = 404

\* A POST body that holds the latest row of each key only.
PostBodyOfLatest(rows) == <<Only(ItemsLatest(rows, NoQuery(FALSE)))>>

\* The POST request is prepared: its body is documents({includeHistory: true}).
PostBody(rows) == <<ItemsWithHistory(rows, NoQuery(TRUE))>>

\* The call, up to the await of the GET.
StartPass ==
    /\ pass.pc \in {"idle", "done", "threw"}
    /\ pass' = Pass("get", {}, {}, {}, <<>>, "none")
    /\ UNCHANGED <<workspace, store, now, last, syncer, conn, pass2>>

\* The GET throws: the catch returns resultStats.
GetThrows ==
    /\ pass.pc = "get"
    /\ pass' = [ReturnOnFetchError(pass) EXCEPT !.pc = "done", !.failed = "get"]
    /\ UNCHANGED <<workspace, store, now, last, syncer, conn, pass2>>

\* The GET answers: pull is set to zero counts; on 404 the POST is sent, else
\* the body is awaited.
GetResponds(status) ==
    /\ pass.pc = "get"
    /\ pass' = IF IsNotFound(status)
               THEN [pass EXCEPT !.pc = "post", !.pull = {Stats(0, 0, 0)},
                                 !.body = PostBody(store["A"]), !.resp = {status}]
               ELSE [pass EXCEPT !.pc = "json", !.pull = {Stats(0, 0, 0)},
                                 !.resp = {status}]
    /\ UNCHANGED <<workspace, store, now, last, syncer, conn, pass2>>

\* resp.json() resolves to docs: each is ingested and counted, then the POST
\* is sent.
JsonResolves(docs) ==
    /\ pass.pc = "json"
    /\ \E r \in {IngestAll(store["A"], docs, now)} :
          /\ store' = [store EXCEPT !["A"] = r.rows]
          /\ pass' = [pass EXCEPT !.pc = "post",
                                  !.pull = {Stats(r.n, Len(docs) - r.n, Len(docs))},
                                  !.body = PostBody(r.rows)]
    /\ UNCHANGED <<workspace, now, last, syncer, conn, pass2>>

\* resp.json() rejects, or resolves to a value that cannot be iterated: the
\* call throws.
JsonRejects ==
    /\ pass.pc = "json"
    /\ pass' = [pass EXCEPT !.pc = "threw"]
    /\ UNCHANGED <<workspace, store, now, last, syncer, conn, pass2>>

\* The POST throws: the catch returns resultStats.
PostThrows ==
    /\ pass.pc = "post"
    /\ pass' = [ReturnOnFetchError(pass) EXCEPT !.pc = "done", !.failed = "post"]
    /\ UNCHANGED <<workspace, store, now, last, syncer, conn, pass2>>

\* The POST answers: on 404 and 403 the call returns, else the body is awaited.
PostResponds(status) ==
    /\ pass.pc = "post"
    /\ pass' = [pass EXCEPT !.pc = IF status \in {404, 403} THEN "done" ELSE "json2"]
    /\ UNCHANGED <<workspace, store, now, last, syncer, conn, pass2>>

\* resp2.json() resolves to stats, kept as resultStats.pushStats.
Json2Resolves(stats) ==
    /\ pass.pc = "json2"
    /\ pass' = [pass EXCEPT !.pc = "done", !.pushStats = {stats}]
    /\ UNCHANGED <<workspace, store, now, last, syncer, conn, pass2>>

\* resp2.json() rejects: the call throws.
Json2Rejects ==
    /\ pass.pc = "json2"
    /\ pass' = [pass EXCEPT !.pc = "threw"]
    /\ UNCHANGED <<workspace, store, now, last, syncer, conn, pass2>>

\* The statuses a pub answers with.
Statuses == {200, 403, 404, 500}

\* The documents a pub serves: signed ones, one of them dated after
\* now + 10 minutes, and one with a signature that does not verify.
PubItems ==
    {SignedItem("w1", KeyK, "v1", 9, "a1"), SignedItem("w1", KeyK, "v2", 10, "a1"),
     SignedItem("w1", KeyK, "v1", MaxTs, "a2"), MakeItem("w1", KeyK, "v1", 10, "a2", <<122>>)}

RECURSIVE Lists(_, _)
\* The lists of at most n elements of S.
Lists(S, n) ==
    IF n = 0 THEN {<<>>}
    ELSE Lists(S, n - 1) \cup {Append(l, x) : l \in {m \in Lists(S, n - 1) : Len(m) = n - 1}, x \in S}

PubDocs == Lists(PubItems, MaxDocs)

\* What a pub reports of a push.
PubStats == {Stats(0, 0, 0), Stats(1, 0, 1), Stats(1, 1, 2)}

\* Store A is written with set while it syncs with a pub.
NextHttp ==
    \/ Tick
    \/ \E itemToSet \in FewItemsToSet : Set("A", itemToSet)
    \/ StartPass
    \/ GetThrows
    \/ \E status \in Statuses : GetResponds(status)
    \/ \E docs \in PubDocs : JsonResolves(docs)
    \/ JsonRejects
    \/ PostThrows
    \/ \E status \in Statuses : PostResponds(status)
    \/ \E stats \in PubStats : Json2Resolves(stats)
    \/ Json2Rejects

SpecHttp == Init /\ [][NextHttp]_vars

\* ------------------------------------------------------------------ syncer

\* A url taken as it is given.
UrlAsGiven(url) == url

\* url.endsWith('/') ? url : url + '/'
EnsureTrailingSlash(url) ==
    IF Len(url) > 0 /\ url[Len(url)] = 47 THEN url ELSE url \o <<47>>

\* this.state as an observer of onChange reads it when it is sent.
StateOf(sy) ==
    [pubs |-> [i \in 1..Len(sy.pubs) |-> sy.obj[sy.pubs[i]]],
     syncState |-> sy.syncState, lastSync |-> sy.lastSync]

\* this.onChange.send(this.state)
Send(sy) == [sy EXCEPT !.sent = Append(sy.sent, StateOf(sy))]

\* The Pub objects that the for loop of a run has yet to leave.
Pending(run) ==
    IF run.pc = "pass"
    THEN {run.list[i] : i \in {j \in DOMAIN run.list : j >= run.at}}
    ELSE {}

\* The Pub objects that can still be reached: those of this.state.pubs and
\* those that the for loop of a run has yet to leave.
Reachable(sy) ==
    {sy.pubs[i] : i \in DOMAIN sy.pubs} \cup Pending(sy.run) \cup Pending(sy.other)

\* Objects that cannot be reached are gone.
Collect(sy) ==
    [sy EXCEPT !.obj = [i \in 1..MaxPubs |-> IF i \in Reachable(sy) THEN sy.obj[i] ELSE NoPub]]

\* this.state.pubs.filter(pub => pub.domain !== url)
RECURSIVE Filter(_, _, _)
Filter(seq, obj, url) ==
    IF seq = <<>> THEN <<>>
    ELSE (IF obj[Head(seq)].domain # url THEN <<Head(seq)>> ELSE <<>>)
         \o Filter(Tail(seq), obj, url)

\* removePub(url)
RemovePub(url) ==
    \E kept \in {Filter(syncer.pubs, syncer.obj, EnsureTrailingSlash(url))} :
    \E sy \in {[syncer EXCEPT !.pubs = kept, !.sent = <<>>,
                              !.op = SyncerOp("removePub"),
                              !.run.attached = FALSE,
                              !.other.attached = FALSE]} :
        /\ syncer' = Collect(IF Len(syncer.pubs) # Len(kept) THEN Send(sy) ELSE sy)
        /\ UNCHANGED <<workspace, store, now, last, pass, conn, pass2>>

\* addPub(domain); a run whose for loop iterates this.state.pubs itself sees
\* the Pub that is pushed.
AddPub(domain) ==
    \E url \in {EnsureTrailingSlash(domain)} :
    \E sy \in {[syncer EXCEPT !.sent = <<>>, !.op = SyncerOp("addPub")]} :
        /\ IF \E i \in DOMAIN syncer.pubs : syncer.obj[syncer.pubs[i]].domain = url
           THEN syncer' = sy
           ELSE \E free \in (1..MaxPubs) \ Reachable(syncer) :
                /\ \A i \in (1..MaxPubs) \ Reachable(syncer) : free <= i
                /\ syncer' =
                     Send([sy EXCEPT
                             !.obj[free] = Pub(url, "idle", 0),
                             !.pubs = Append(@, free),
                             !.run.list = IF syncer.run.pc = "pass" /\ syncer.run.attached
                                          THEN Append(@, free) ELSE @,
                             !.other.list = IF syncer.other.pc = "pass" /\ syncer.other.attached
                                            THEN Append(@, free) ELSE @])
        /\ UNCHANGED <<workspace, store, now, last, pass, conn, pass2>>

\* The head of the for loop of sync(): the next Pub, if there is one, is set to
\* 'syncing' and sent, and syncLocalAndHttp is called; after the last Pub the
\* run awaits sleep(150).
VisitNext(sy, at) ==
    IF at <= Len(sy.run.list)
    THEN Send([sy EXCEPT !.obj[sy.run.list[at]].syncState = "syncing",
                         !.run.pc = "pass", !.run.at = at])
    ELSE [sy EXCEPT !.run.pc = "sleep", !.run.at = at]

\* The result of syncLocalAndHttp counts as a failure.
PassFailedEither(resultStats) == resultStats.pull = {} \/ resultStats.push = {}

\* resultStats.pull === null && resultStats.push === null
PassFailed(resultStats) == resultStats.pull = {} /\ resultStats.push = {}

\* An aggregate that is 'failure' as soon as one Pub failed.
AggregateFailureFirst(numSuccessfulPubs, numFailedPubs) ==
    IF numFailedPubs > 0 THEN "failure"
    ELSE IF numSuccessfulPubs > 0 THEN "success"
    ELSE "idle"

\* The aggregate syncState that ends sync().
Aggregate(numSuccessfulPubs, numFailedPubs) ==
    IF numSuccessfulPubs > 0 THEN "success"
    ELSE IF numFailedPubs > 0 THEN "failure"
    ELSE "idle"

\* sync() is called: up to the first await.
SyncerSync ==
    /\ syncer.run.pc \in {"none", "finished", "rejected"}
    /\ \E sy \in {Collect(VisitNext(
                     Send([syncer EXCEPT
                             !.syncState = "syncing", !.sent = <<>>,
                             !.op = SyncerOp("sync"),
                             !.run = Run("loop", syncer.pubs, TRUE, 0, 0, 0, <<>>)]), 1))} :
          /\ syncer' = sy
          /\ pass' = IF sy.run.pc = "pass" THEN Pass("get", {}, {}, {}, <<>>, "none")
                     ELSE pass
    /\ UNCHANGED <<workspace, store, now, last, conn, pass2>>

\* syncLocalAndHttp returned resultStats: the Pub is set to 'failure' or
\* 'success' and sent, and the loop goes on (the call of syncLocalAndHttp is
\* over: pass is idle again unless the next call is made).
SyncerPassReturns ==
    /\ syncer.run.pc = "pass"
    /\ pass.pc = "done"
    /\ \E id \in {syncer.run.list[syncer.run.at]} :
       \E sy \in {Collect(VisitNext(
                     Send(IF PassFailed(pass)
                          THEN [syncer EXCEPT
                                  !.sent = <<>>, !.op = SyncerOp("passReturns"),
                                  !.obj[id].syncState = "failure",
                                  !.run.numFailedPubs = @ + 1,
                                  !.run.visited = Append(@, "failure")]
                          ELSE [syncer EXCEPT
                                  !.sent = <<>>, !.op = SyncerOp("passReturns"),
                                  !.obj[id].lastSync = now,
                                  !.obj[id].syncState = "success",
                                  !.run.numSuccessfulPubs = @ + 1,
                                  !.run.visited = Append(@, "success")]),
                     syncer.run.at + 1))} :
          /\ syncer' = sy
          /\ pass' = IF sy.run.pc = "pass" THEN Pass("get", {}, {}, {}, <<>>, "none")
                     ELSE IdlePass
    /\ UNCHANGED <<workspace, store, now, last, conn, pass2>>

\* syncLocalAndHttp threw: nothing in sync() catches it, the run ends there.
SyncerPassThrows ==
    /\ syncer.run.pc = "pass"
    /\ pass.pc = "threw"
    /\ syncer' = Collect([syncer EXCEPT !.sent = <<>>,
                                        !.op = SyncerOp("passThrows"),
                                        !.run = [NoRun EXCEPT !.pc = "rejected"]])
    /\ pass' = IdlePass
    /\ UNCHANGED <<workspace, store, now, last, conn, pass2>>

\* sleep(150) is over: lastSync and the aggregate syncState are set and sent.
SyncerSleepEnds ==
    /\ syncer.run.pc = "sleep"
    /\ syncer' =
         Send([syncer EXCEPT
                 !.sent = <<>>, !.op = SyncerOp("sleepEnds"),
                 !.lastSync = now,
                 !.syncState = Aggregate(syncer.run.numSuccessfulPubs,
                                         syncer.run.numFailedPubs),
                 !.run = [NoRun EXCEPT !.pc = "finished"]])
    /\ UNCHANGED <<workspace, store, now, last, pass, conn, pass2>>

\* Nothing in sync() keeps it from being called while an earlier call is
\* awaiting: the second call runs the same code on the same this.state, with
\* its own loop, counters and call of syncLocalAndHttp.

\* The Syncer as the second call sees it: its own run in place of the first.
Swapped(sy) == [sy EXCEPT !.run = sy.other, !.other = sy.run]

\* sync() is called while a run is awaiting: up to the first await.
SecondSync ==
    /\ syncer.run.pc \in {"pass", "sleep"}
    /\ syncer.other.pc \in {"none", "finished", "rejected"}
    /\ \E sw \in {Swapped(syncer)} :
       \E sy \in {Collect(VisitNext(
                     Send([sw EXCEPT
                             !.syncState = "syncing", !.sent = <<>>,
                             !.op = SyncerOp("sync"),
                             !.run = Run("loop", sw.pubs, TRUE, 0, 0, 0, <<>>)]), 1))} :
          /\ syncer' = Swapped(sy)
          /\ pass2' = IF sy.run.pc = "pass" THEN Pass("get", {}, {}, {}, <<>>, "none")
                      ELSE pass2
    /\ UNCHANGED <<workspace, store, now, last, pass, conn>>

\* The second call: syncLocalAndHttp returned resultStats.
SecondPassReturns ==
    /\ syncer.other.pc = "pass"
    /\ pass2.pc = "done"
    /\ \E sw \in {Swapped(syncer)} :
       \E id \in {sw.run.list[sw.run.at]} :
       \E sy \in {Collect(VisitNext(
                     Send(IF PassFailed(pass2)
                          THEN [sw EXCEPT
                                  !.sent = <<>>, !.op = SyncerOp("passReturns"),
                                  !.obj[id].syncState = "failure",
                                  !.run.numFailedPubs = @ + 1,
                                  !.run.visited = Append(@, "failure")]
                          ELSE [sw EXCEPT
                                  !.sent = <<>>, !.op = SyncerOp("passReturns"),
                                  !.obj[id].lastSync = now,
                                  !.obj[id].syncState = "success",
                                  !.run.numSuccessfulPubs = @ + 1,
                                  !.run.visited = Append(@, "success")]),
                     sw.run.at + 1))} :
          /\ syncer' = Swapped(sy)
          /\ pass2' = IF sy.run.pc = "pass" THEN Pass("get", {}, {}, {}, <<>>, "none")
                      ELSE IdlePass
    /\ UNCHANGED <<workspace, store, now, last, pass, conn>>

\* The second call: sleep(150) is over.
SecondSleepEnds ==
    /\ syncer.other.pc = "sleep"
    /\ syncer' =
         Send([syncer EXCEPT
                 !.sent = <<>>, !.op = SyncerOp("sleepEnds"),
                 !.lastSync = now,
                 !.syncState = Aggregate(syncer.other.numSuccessfulPubs,
                                         syncer.other.numFailedPubs),
                 !.other = [NoRun EXCEPT !.pc = "finished"]])
    /\ UNCHANGED <<workspace, store, now, last, pass, conn, pass2>>

\* The syncLocalAndHttp of the second call: the GET throws.
SecondGetThrows ==
    /\ pass2.pc = "get"
    /\ pass2' = [ReturnOnFetchError(pass2) EXCEPT !.pc = "done", !.failed = "get"]
    /\ UNCHANGED <<workspace, store, now, last, pass, syncer, conn>>

\* The GET answers.
SecondGetResponds(status) ==
    /\ pass2.pc = "get"
    /\ pass2' = IF IsNotFound(status)
                THEN [pass2 EXCEPT !.pc = "post", !.pull = {Stats(0, 0, 0)},
                                   !.body = PostBody(store["A"]), !.resp = {status}]
                ELSE [pass2 EXCEPT !.pc = "json", !.pull = {Stats(0, 0, 0)},
                                   !.resp = {status}]
    /\ UNCHANGED <<workspace, store, now, last, pass, syncer, conn>>

\* The POST throws.
SecondPostThrows ==
    /\ pass2.pc = "post"
    /\ pass2' = [ReturnOnFetchError(pass2) EXCEPT !.pc = "done", !.failed = "post"]
    /\ UNCHANGED <<workspace, store, now, last, pass, syncer, conn>>

\* The POST answers.
SecondPostResponds(status) ==
    /\ pass2.pc = "post"
    /\ pass2' = [pass2 EXCEPT !.pc = IF status \in {404, 403} THEN "done" ELSE "json2"]
    /\ UNCHANGED <<workspace, store, now, last, pass, syncer, conn>>

\* Pub URLs: "p", "p/" and "q/".
UrlP == <<112>>
UrlPSlash == <<112, 47>>
UrlQSlash == <<113, 47>>
Urls == {UrlP, UrlPSlash, UrlQSlash}

\* What the pubs serve in these runs: nothing, or one document, whose
\* signature does not verify; and what they report of a push.
FewPubDocs == {<<>>, <<MakeItem("w1", KeyK, "v1", 10, "a2", <<122>>)>>}
FewPubStats == {Stats(0, 0, 0)}

\* The Syncer of store A: pubs are added and removed and sync() is run, one
\* run at a time, while the pubs answer as they like.  The clock stands at one
\* reading: lastSync is 0 or that reading.
NextSyncer ==
    \/ \E url \in Urls : AddPub(url)
    \/ \E url \in Urls : RemovePub(url)
    \/ SyncerSync
    \/ SyncerPassReturns
    \/ SyncerPassThrows
    \/ SyncerSleepEnds
    \/ GetThrows
    \/ \E status \in Statuses : GetResponds(status)
    \/ \E docs \in FewPubDocs : JsonResolves(docs)
    \/ JsonRejects
    \/ PostThrows
    \/ \E status \in Statuses : PostResponds(status)
    \/ \E stats \in FewPubStats : Json2Resolves(stats)
    \/ Json2Rejects

SpecSyncer == Init /\ [][NextSyncer]_vars

\* ------------------------------------------------------------------ two connections

\* ingestItem runs two statements on the database, the SELECT of the existing
\* row and the INSERT OR REPLACE, outside any transaction.  A call is one
\* synchronous function: calls made in one process follow one another, and two
\* processes that have opened the same file take turns statement by statement.

\* ingestItem(item, futureCutoff) on connection c, up to the SELECT.
ConnLookup(c, item, cutoff) ==
    /\ conn[c].pc = "idle"
    /\ conn' = [conn EXCEPT ![c] =
                  IF ~ItemIsValid(item, cutoff, now)
                  THEN Ingest("idle", {item}, {}, FALSE)
                  ELSE Ingest("looked", {item},
                              ExistingSameAuthorSameKey(store["A"], item), FALSE)]
    /\ UNCHANGED <<workspace, store, now, last, pass, syncer, pass2>>

\* The rest of the call: the comparison with the row found, and the INSERT OR
\* REPLACE.
ConnUpsert(c) ==
    /\ conn[c].pc = "looked"
    /\ \E item \in conn[c].item :
          IF \E e \in conn[c].existing : ItemNotNewer(item, e)
          THEN /\ conn' = [conn EXCEPT ![c].pc = "idle", ![c].ret = FALSE]
               /\ store' = store
          ELSE /\ conn' = [conn EXCEPT ![c].pc = "idle", ![c].ret = TRUE]
               /\ store' = [store EXCEPT !["A"] = InsertOrReplace(@, item)]
    /\ UNCHANGED <<workspace, now, last, pass, syncer, pass2>>

\* The documents the two processes ingest, with futureCutoff MaxTs: four of one
\* (key, author), one of another author, one with a signature that does not
\* verify.
RaceItems ==
    {SignedItem("w1", KeyK, v, t, "a1") : v \in Values, t \in {10, MaxTs}}
    \cup {SignedItem("w1", KeyK, "v1", 10, "a2"),
          MakeItem("w1", KeyK, "v1", 10, "a2", <<122>>)}

NextRace ==
    \/ \E c \in Conns, item \in RaceItems : ConnLookup(c, item, <<MaxTs>>)
    \/ \E c \in Conns : ConnUpsert(c)

SpecRace == Init /\ [][NextRace]_vars

\* ------------------------------------------------------------------ two runs of sync()

\* The status the pubs answer with in these runs, when they answer.
FewStatuses == {404}

\* The Syncer of store A with sync() called again while a run is awaiting.
\* The pubs answer 404 or not at all: no body is read and no call of
\* syncLocalAndHttp throws.
NextOverlap ==
    \/ \E url \in {UrlPSlash, UrlQSlash} : AddPub(url)
    \/ \E url \in {UrlPSlash} : RemovePub(url)
    \/ SyncerSync
    \/ SyncerPassReturns
    \/ SyncerSleepEnds
    \/ GetThrows
    \/ \E status \in FewStatuses : GetResponds(status)
    \/ PostThrows
    \/ \E status \in FewStatuses : PostResponds(status)
    \/ SecondSync
    \/ SecondPassReturns
    \/ SecondSleepEnds
    \/ SecondGetThrows
    \/ \E status \in FewStatuses : SecondGetResponds(status)
    \/ SecondPostThrows
    \/ \E status \in FewStatuses : SecondPostResponds(status)

SpecOverlap == Init /\ [][NextOverlap]_vars

\* ------------------------------------------------------------------ claims: one store

\* (timestamp, signature) of d greater than that of e: the timestamp compared as
\* a number, the signature as a string.
PairGreater(d, e) ==
    \/ d.timestamp > e.timestamp
    \/ d.timestamp = e.timestamp /\ StrLess(e.signature, d.signature)

\* The rows stored for a (key, author).
RowsOf(rows, k, a) == {r \in rows : r.key = k /\ r.author = a}

\* The step is a call of `op` (a Tick leaves `last` as it was).
IsCall(op) == last'.op = op /\ now' = now

\* C1: documents of one (key, author) offered to ingestItem one at a time leave
\* the greatest (timestamp, signature) stored: each call with a valid document d
\* leaves, as the row of d's (key, author), the greater of d and the row stored
\* before, so a smaller pair never replaces a greater one.
C1_GreatestPairStored ==
    [][\A d \in last'.item :
          (IsCall("ingestItem") /\ last'.valid)
          => LET s == last'.store
                 before == RowsOf(store[s], d.key, d.author)
             IN  RowsOf(store'[s], d.key, d.author) =
                    (IF \E e \in before : ~PairGreater(d, e) THEN before ELSE {d})]_vars

\* C3: a key written by N authors keeps N rows, one per author, and
\* items({includeHistory: false}) returns exactly one row for the key: the
\* stored row with the greatest (timestamp, signature), also when timestamps
\* are equal.
C3_LatestIsGreatestPair ==
    \A s \in StoreIds : \A k \in {r.key : r \in store[s]} :
        LET ofKey == {r \in store[s] : r.key = k}
        IN  /\ \A r \in ofKey, q \in ofKey : r.author = q.author => r = q
            /\ \A result \in Items(store[s], NoQuery(FALSE)) :
                  \E i \in 1..Len(result) :
                      /\ result[i] \in ofKey
                      /\ \A j \in 1..Len(result) : result[j].key = k => j = i
                      /\ \A q \in ofKey \ {result[i]} : PairGreater(result[i], q)

\* C4: set by a local author returns true, and getItem(key) then returns the
\* document just written, whatever rows the key already holds.
C4_SetIsReadBack ==
    [][\A d \in last'.item :
          (IsCall("set") /\ d.signature = SignatureOf(d))
          => /\ last'.ret
             /\ GetItem(store'[last'.store], d.key) = {d}]_vars

\* C5: every set by an author on a key strictly increases the timestamp stored
\* for that (key, author).
C5_SetIncreasesTimestamp ==
    [][\A d \in last'.item :
          (IsCall("set") /\ d.signature = SignatureOf(d))
          => LET before == RowsOf(store[last'.store], d.key, d.author)
                 after == RowsOf(store'[last'.store], d.key, d.author)
             IN  /\ after # {}
                 /\ \A b \in before, a \in after : a.timestamp > b.timestamp]_vars

\* The step is ingestItem(d, cutoff) on a store whose last call was the same
\* ingestItem(d, cutoff).
SecondIngest ==
    /\ IsCall("ingestItem")
    /\ last.op = "ingestItem"
    /\ last'.store = last.store
    /\ last'.item = last.item
    /\ last'.cutoff = last.cutoff

\* C7: when ingestItem(d) is called twice in a row, the second call returns
\* false and leaves the store as the first call left it.
C7_SecondIngestRejected ==
    [][SecondIngest => (~last'.ret /\ store' = store)]_vars

\* C7, amended: the same, when the first call did not turn d down for a
\* timestamp after the default cutoff (now + 10 minutes): such a d is accepted
\* by a second call made once the clock has caught up.
C7_SecondIngestRejectedUnlessFuture ==
    [][(/\ SecondIngest
        /\ \/ last.valid
           \/ last.cutoff # <<>>
           \/ \A d \in last.item : d.signature # SignatureOf(d))
       => (~last'.ret /\ store' = store)]_vars

\* C7, witness: a stored document was offered again and turned down.
C7_Witness ==
    /\ last.op = "ingestItem"
    /\ last.cutoff = <<>>
    /\ last.valid /\ last.hadExisting /\ ~last.ret
    /\ last.item # {}
    /\ last.item \subseteq store[last.store]

\* C21: every row of a store has the workspace of the store: no ingestItem
\* and no set stores a document of another workspace.
C21_RowsInOwnWorkspace ==
    \A s \in StoreIds : \A row \in store[s] : row.workspace = workspace[s]

\* ------------------------------------------------------------------ claims: two stores

\* The greatest (timestamp, signature) row of each (key, author) among `rows`.
GreatestRows(rows) ==
    {r \in rows : \A q \in rows :
        (q.key = r.key /\ q.author = r.author /\ q # r) => PairGreater(r, q)}

\* C2: after A.sync(B) with direction 'both', A and B hold the same rows, each
\* (key, author) holding the greatest (timestamp, signature) document that
\* either held before, and items({includeHistory: false}) returns the same on
\* both.  Stated for stores whose documents are not dated after the cutoff
\* (now + 10 minutes) at the time of the sync: a document dated later is
\* turned down by the other store whatever it is compared with.
C2_SyncConverges ==
    [][(/\ IsCall("sync")
        /\ last'.opts = SyncOpts("both", TRUE, FALSE)
        /\ last'.store # last'.other
        /\ workspace[last'.store] = workspace[last'.other]
        /\ \A d \in store[last'.store] \cup store[last'.other] :
              d.timestamp <= FutureCutoff(<<>>, now))
       => LET a == last'.store
              b == last'.other
              greatest == GreatestRows(store[a] \cup store[b])
          IN  /\ store'[a] = greatest
              /\ store'[b] = greatest
              /\ \A ra \in Items(store'[a], NoQuery(FALSE)),
                    rb \in Items(store'[b], NoQuery(FALSE)) : ra = rb]_vars

\* C6: a store never holds two rows for one (key, author).
C6_OneRowPerKeyAndAuthor ==
    \A s \in StoreIds : \A r \in store[s], q \in store[s] :
        (r.key = q.key /\ r.author = q.author) => r = q

\* C6, witness: a call has replaced the row of a (key, author), and a sync has
\* brought rows of two authors together.
C6_Witness ==
    /\ last.op \in {"ingestItem", "set"}
    /\ last.ret /\ last.hadExisting
    /\ \E s \in StoreIds : Cardinality(store[s]) >= 2

\* C10: in sync with direction 'both', when the pull step fails with an error
\* the push step is still attempted.
C10_PushAttemptedAfterPullFails ==
    (last.op = "sync" /\ last.opts.direction = "both" /\ "pull" \in last.threw)
    => "push" \in last.called

\* C10, amended: in sync with direction 'both' the pull step runs first, and
\* when it fails with an error the error leaves sync: the push step is not
\* attempted and sync returns no result.
C10_PullFailureEndsSync ==
    (last.op = "sync" /\ last.opts.direction = "both" /\ "pull" \in last.threw)
    => ("push" \notin last.called /\ ~last.ret)

\* C10, witness: a sync with direction 'both' between two stores of one
\* workspace whose pull step threw.
C10_Witness ==
    /\ last.op = "sync" /\ last.opts.direction = "both"
    /\ last.store # last.other
    /\ workspace[last.store] = workspace[last.other]
    /\ "pull" \in last.threw

\* C11: every sync(other, {live: true}), whatever the direction, the existing
\* option and the other store, fails with the 'live sync not implemented'
\* error before a document is ingested on either side.
C11_LiveSyncAlwaysThrows ==
    [][(IsCall("sync") /\ last'.opts.live)
       => (last'.threw # {} /\ ~last'.ret /\ store' = store)]_vars

\* C11, amended: sync(other, {live: true}) with another store of the same
\* workspace fails with the error before a document is ingested on either
\* side; with the store itself or a store of another workspace it returns
\* {numPushed: 0, numPulled: 0}, the guards of sync() coming first.
C11_LiveSyncThrowsPastGuards ==
    [][(IsCall("sync") /\ last'.opts.live)
       => /\ store' = store
          /\ IF last'.store # last'.other
                /\ workspace[last'.store] = workspace[last'.other]
             THEN last'.threw # {} /\ ~last'.ret
             ELSE last'.threw = {} /\ last'.ret
                  /\ last'.numPushed = 0 /\ last'.numPulled = 0]_vars

\* C11, witness: a live sync between two stores of one workspace threw while
\* the source of the step that threw held documents the other lacked.
C11_Witness ==
    /\ last.op = "sync" /\ last.opts.live /\ last.opts.existing
    /\ last.store # last.other
    /\ workspace[last.store] = workspace[last.other]
    /\ last.threw # {}
    /\ store[last.store] # {}
    /\ store[last.other] = {}

\* C16: sync(other) with the store itself, or with a store of another
\* workspace, returns {numPushed: 0, numPulled: 0} and leaves the rows of both
\* stores as they were, whatever the direction.
C16_GuardedSyncIsNoOp ==
    [][(/\ IsCall("sync")
        /\ \/ last'.store = last'.other
           \/ workspace[last'.store] # workspace[last'.other])
       => /\ last'.ret /\ last'.threw = {}
          /\ last'.numPushed = 0 /\ last'.numPulled = 0
          /\ store' = store]_vars

\* C16, witness: a store that holds rows was synced with a store of another
\* workspace that holds rows the first lacks.
C16_Witness ==
    /\ last.op = "sync"
    /\ workspace[last.store] # workspace[last.other]
    /\ store[last.store] # {}
    /\ store[last.other] \ store[last.store] # {}

\* ------------------------------------------------------------------ claims: three stores

\* The rows of a store after it has pulled, with includeHistory = true, all the
\* documents of a store that holds otherRows, at clock reading `clock`.
Pulled(rows, otherRows, clock) == SyncFrom(rows, otherRows, TRUE, FALSE, clock).rows

\* Every order in which the rows of a table can be iterated.
Orders(rows) ==
    {order \in [1..Cardinality(rows) -> rows] :
        \A i \in DOMAIN order, j \in DOMAIN order : order[i] = order[j] => i = j}

\* S ends with the same rows whether it pulls from X and then from Y or from Y
\* and then from X, the first pull made at clock reading t1 and the second at
\* t2, and whatever the order in which the documents of a source are iterated.
MergeCommutes(t1, t2) ==
    \A s \in StoreIds, x \in StoreIds, y \in StoreIds :
        (s # x /\ s # y /\ x # y)
        => /\ Pulled(Pulled(store[s], store[x], t1), store[y], t2)
              = Pulled(Pulled(store[s], store[y], t1), store[x], t2)
           /\ \A order \in Orders(store[x]) :
                 IngestAll(store[s], order, t1).rows = Pulled(store[s], store[x], t1)

\* C8: merging is commutative: pulling from X and then from Y leaves S with
\* the same rows as pulling from Y and then from X, whatever the order in
\* which a source's documents are iterated.
C8_MergeCommutes ==
    \A t1 \in now..MaxNow, t2 \in now..MaxNow : t1 <= t2 => MergeCommutes(t1, t2)

\* C8, amended: the same, when both pulls are made at one reading of the clock
\* (a document of a source dated after now + 10 minutes is turned down by a
\* pull and accepted by a later one, so the source pulled later can bring more).
C8_MergeCommutesAtOneTime == MergeCommutes(now, now)

\* C8, witness: a store has pulled a document from another while a third store
\* holds a different document for the same (key, author).
C8_Witness ==
    /\ last.op = "sync" /\ last.opts.direction = "pull" /\ last.numPulled > 0
    /\ \E y \in StoreIds \ {last.store, last.other} :
          \E r \in store[last.other], q \in store[y] :
              r.key = q.key /\ r.author = q.author /\ r # q /\ r \in store[last.store]

\* ------------------------------------------------------------------ claims: store and pub

C15_NotFoundPullIsEmptyAndPushGoesOn ==
    [][(pass.pc = "get" /\ pass'.resp = {404})
       => /\ store' = store
          /\ pass'.pull = {Stats(0, 0, 0)}
          /\ pass'.failed = "none"
          /\ pass'.pc = "post"
          /\ pass'.body # <<>>]_vars

\* C15, witness: the POST was sent after a 404 to the GET while the store
\* held a document.
C15_Witness ==
    /\ pass.pc = "post" /\ pass.resp = {404}
    /\ store["A"] # {}

\* The rows of a request body (<<>> when no request was sent).
BodyRows(body) == IF body = <<>> THEN {} ELSE {body[1][i] : i \in DOMAIN body[1]}

\* C18: the POST is sent only after every pulled document was offered to
\* ingest, and its body is all the rows the store holds at that moment, every
\* author's row of every key, each once: it holds every document accepted
\* during the pull.
C18_PushBodyIsAllRows ==
    [][(pass.pc # "post" /\ pass'.pc = "post")
       => /\ pass'.body # <<>>
          /\ BodyRows(pass'.body) = store'["A"]
          /\ Len(pass'.body[1]) = Cardinality(store'["A"])
          /\ (store'["A"] \ store["A"]) \subseteq BodyRows(pass'.body)
          /\ \A stats \in pass'.pull :
                /\ stats.numTotal = stats.numIngested + stats.numIgnored
                /\ stats.numIngested >= Cardinality(store'["A"] \ store["A"])]_vars

\* C18, witness: the POST was sent after a pull that ingested a document, with
\* the store holding rows of two authors for one key.
C18_Witness ==
    /\ pass.pc = "post"
    /\ \E stats \in pass.pull : stats.numIngested > 0
    /\ \E r \in BodyRows(pass.body), q \in BodyRows(pass.body) :
          r.key = q.key /\ r.author # q.author

\* ------------------------------------------------------------------ claims: syncer

\* A call on the Syncer, or a step of its run, is made.
SyncerStep(name) == syncer'.op.name = name /\ syncer' # syncer

\* The syncStates of the Pubs of this.state.pubs.
ListedStates(sy) == {sy.obj[sy.pubs[i]].syncState : i \in DOMAIN sy.pubs}

\* C12: when a pass against an endpoint has returned, the endpoint's syncState
\* is 'failure' exactly when the result has pull and push both null and
\* 'success' otherwise; its lastSync changes only when it becomes 'success';
\* the other endpoints are as they were.
C12_EndpointFollowsResult ==
    [][SyncerStep("passReturns")
       => LET id == syncer.run.list[syncer.run.at]
              failed == pass.pull = {} /\ pass.push = {}
              state == IF failed THEN "failure" ELSE "success"
          IN  /\ syncer'.run.visited = Append(syncer.run.visited, state)
              /\ Len(syncer'.sent) >= 1
              /\ \A i \in DOMAIN syncer.pubs :
                    IF syncer.pubs[i] = id
                    THEN /\ syncer'.sent[1].pubs[i].syncState = state
                         /\ syncer'.sent[1].pubs[i].lastSync
                              = IF failed THEN syncer.obj[id].lastSync ELSE now
                    ELSE syncer'.sent[1].pubs[i] = syncer.obj[syncer.pubs[i]]]_vars

\* C12, witness: passes have returned that left one endpoint in 'failure' and
\* the next in 'success'.
C12_Witness ==
    /\ syncer.op.name = "passReturns"
    /\ {"failure", "success"} \subseteq ListedStates(syncer)
    /\ syncer.run.visited = <<"failure", "success">>

\* C13: when a run of sync() finishes, the aggregate syncState is 'success' if
\* and only if an endpoint visited in the run ended in 'success', 'failure' if
\* and only if endpoints were visited and all ended in 'failure', and 'idle' if
\* and only if none was visited.
C13_AggregateFollowsEndpoints ==
    [][SyncerStep("sleepEnds")
       => LET ended == {syncer.run.visited[i] : i \in DOMAIN syncer.run.visited}
          IN  /\ (syncer'.syncState = "success") <=> ("success" \in ended)
              /\ (syncer'.syncState = "failure") <=> (ended = {"failure"})
              /\ (syncer'.syncState = "idle") <=> (ended = {})
              /\ syncer'.sent = <<StateOf(syncer')>>]_vars

\* C13, witness: a run has finished with aggregate 'success' although one of
\* the endpoints it visited ended in 'failure'.
C13_Witness ==
    /\ syncer.op.name = "sleepEnds"
    /\ syncer.syncState = "success"
    /\ {"failure", "success"} \subseteq ListedStates(syncer)

\* C14: endpoints are visited one after the other: at most one endpoint of the
\* list is 'syncing' at any moment; an endpoint is set to 'syncing', and sent,
\* only when every endpoint before it in the list has reached 'success' or
\* 'failure'; and the aggregate state is sent after all of them.
C14_OneEndpointAtATime ==
    [][/\ Cardinality({i \in DOMAIN syncer'.pubs :
                          syncer'.obj[syncer'.pubs[i]].syncState = "syncing"}) <= 1
       /\ (syncer'.run.pc = "pass" /\ syncer'.run.at # syncer.run.at)
          => /\ syncer'.run.at = Len(syncer'.run.visited) + 1
             /\ syncer'.run.at = IF SyncerStep("sync") THEN 1 ELSE syncer.run.at + 1
             /\ syncer'.obj[syncer'.run.list[syncer'.run.at]].syncState = "syncing"
             /\ syncer'.sent[Len(syncer'.sent)] = StateOf(syncer')
       /\ SyncerStep("sleepEnds")
          => Len(syncer.run.visited) = Len(syncer.run.list)]_vars

\* C20: when a run of sync() ends, whatever the endpoints did, no endpoint is
\* left 'syncing' and the aggregate syncState is not 'syncing'.
C20_RunEndsSettled ==
    (syncer.run.pc \in {"finished", "rejected"})
    => /\ syncer.syncState # "syncing"
       /\ "syncing" \notin ListedStates(syncer)

\* The domain ends with a slash.
EndsWithSlash(domain) == Len(domain) > 0 /\ domain[Len(domain)] = 47

\* C17: the list never holds two Pubs of one domain, and every domain ends
\* with a slash; an addPub or removePub that leaves the list as it was sends
\* nothing, and one that changes the list sends the state once.
C17_PubsAreUniqueAndChangesAreSent ==
    [][/\ \A i \in DOMAIN syncer'.pubs, j \in DOMAIN syncer'.pubs :
             /\ EndsWithSlash(syncer'.obj[syncer'.pubs[i]].domain)
             /\ (i # j) => /\ syncer'.pubs[i] # syncer'.pubs[j]
                           /\ syncer'.obj[syncer'.pubs[i]].domain
                                # syncer'.obj[syncer'.pubs[j]].domain
       /\ (SyncerStep("addPub") \/ SyncerStep("removePub"))
          => IF StateOf(syncer').pubs = StateOf(syncer).pubs
             THEN syncer'.sent = <<>>
             ELSE syncer'.sent = <<StateOf(syncer')>>]_vars

\* C17, witness: with two Pubs in the list, an addPub of a domain that is there
\* left it as it was.
C17_Witness ==
    /\ syncer.op.name = "addPub"
    /\ syncer.sent = <<>>
    /\ Len(syncer.pubs) = 2

\* ------------------------------------------------------------------ claims: two connections

\* C19: the lookup and the upsert of ingestItem are two steps: a call replaces
\* the stored row of a (key, author) by a document with a smaller (timestamp,
\* signature) only when the row was written between its lookup and its upsert
\* (and such a lost update is reachable: the witness).
C19_LostUpdateNeedsStaleLookup ==
    [][\A c \in Conns :
          (conn[c].pc = "looked" /\ conn'[c].pc = "idle")
          => \A old \in store["A"], new \in store'["A"] :
                (old.key = new.key /\ old.author = new.author /\ PairGreater(old, new))
                => conn[c].existing # {old}]_vars

\* C19, witness: a lost update.  The last calls of the two connections both
\* returned true for documents of one (key, author), and the row stored is the
\* smaller of the two.
C19_Witness ==
    \E c \in Conns, d \in Conns :
        /\ c # d
        /\ conn[c].pc = "idle" /\ conn[d].pc = "idle"
        /\ conn[c].ret /\ conn[d].ret
        /\ \E x \in conn[c].item, y \in conn[d].item :
              /\ x.key = y.key /\ x.author = y.author
              /\ PairGreater(y, x)
              /\ x \in store["A"]

\* ------------------------------------------------------------------ claims: two runs of sync()

\* C22: whenever an endpoint of the Syncer's state is 'syncing', the aggregate
\* syncState is 'syncing' too, also when sync() is called again before an
\* earlier call has finished and when addPub or removePub is called during a
\* run.
C22_SyncingEndpointMeansSyncing ==
    ("syncing" \in ListedStates(syncer)) => (syncer.syncState = "syncing")

====
